---- MODULE Spec2Model ----
(***************************************************************************)
(* Model of react-native-paper's Drawer.Section component                  *)
(* (src/components/Drawer/DrawerSection.tsx) and of the text-input         *)
(* adornment enumerations (src/components/TextInput/Adornment/enums.tsx).  *)
(*                                                                         *)
(* Conventions                                                             *)
(*  - An optional prop is a set with at most one element: {} is            *)
(*    `undefined`, {v} is the value v.                                     *)
(*  - A style object is a record; an entry of a style array is an          *)
(*    optional style ({} stands for a `false`/`undefined` entry, which     *)
(*    StyleSheet.flatten skips).                                           *)
(*  - A colour string is modelled by the colour it denotes:                *)
(*    [rgb |-> <<r, g, b>>, alpha |-> percent].                            *)
(*  - A React element is [type, props, children].                          *)
(***************************************************************************)
EXTENDS Integers, Sequences, FiniteSets, TLC

VARIABLES props, tree, log, tag, branch

vars == <<props, tree, log, tag, branch>>

----------------------------------------------------------------------------
(* Bounds of the input space *)

NumThemes == 2
NumChildren == 2
MaxFontScale == 1
MaxRenders == 1

----------------------------------------------------------------------------
(* JavaScript values *)

undefined == {}

Some(v) == {v}

ValueOf(opt) == CHOOSE v \in opt : TRUE

Optional(S) == {undefined} \cup {Some(v) : v \in S}

\* Truthiness of an optional boolean: undefined and false are falsy.
TruthyBool(opt) == opt = Some(TRUE)

\* Truthiness of an optional string: undefined and "" are falsy.
TruthyString(opt) == opt # undefined /\ opt # Some("")

\* Destructuring default `name = d`: only undefined takes the default.
Default(opt, d) == IF opt = undefined THEN d ELSE ValueOf(opt)

EmptyObject == [k \in {} |-> 0]

\* Object spread {...a, ...b}: the later object wins.
Spread(a, b) ==
    [k \in DOMAIN a \cup DOMAIN b |-> IF k \in DOMAIN b THEN b[k] ELSE a[k]]

\* StyleSheet.flatten of a style array: falsy entries are skipped, later
\* entries override earlier ones.
RECURSIVE Flatten(_)
Flatten(arr) ==
    IF arr = <<>> THEN EmptyObject
    ELSE LET init == Flatten(SubSeq(arr, 1, Len(arr) - 1))
             last == arr[Len(arr)]
         IN  IF last = undefined THEN init ELSE Spread(init, ValueOf(last))

----------------------------------------------------------------------------
(* Theme *)

Color(s, a) == [rgb |-> <<s, s, s>>, alpha |-> a]

Font(i) == [fontFamily |-> "System", fontWeight |-> 300 + 100 * i]

\* The i-th theme of a generation. The legacy text colour is translucent
\* (the default legacy theme uses black at 87%), the semantic colours of
\* the current generation are opaque.
Theme(isV3, i) ==
    [isV3 |-> isV3,
     colors |-> [text |-> Color(i, 87), onSurfaceVariant |-> Color(i + NumThemes, 100)],
     fonts |-> [titleSmall |-> Font(i), medium |-> Font(i + NumThemes)]]

Themes == {Theme(isV3, i) : isV3 \in BOOLEAN, i \in 1 .. NumThemes}

----------------------------------------------------------------------------
(* Props *)

Titles == {undefined, Some(""), Some("X"), Some("Settings")}

ChildContent == {[type |-> "Drawer.Item", props |-> [label |-> i], children |-> <<>>] :
                    i \in 1 .. NumChildren}

ViewStyles == {undefined, Some([flex |-> 1])}

RestProps == {EmptyObject, [testID |-> "drawer-section"]}

PropsSpace ==
    [theme : Themes,
     title : Titles,
     children : ChildContent,
     showDivider : Optional(BOOLEAN),
     titleMaxFontSizeMultiplier : Optional(1 .. MaxFontScale),
     style : ViewStyles,
     enableCustomStyle : Optional(BOOLEAN),
     rest : RestProps]

----------------------------------------------------------------------------
(* DrawerSection *)

styles ==
    [container |-> [marginBottom |-> 4],
     titleContainer |-> [height |-> 40, justifyContent |-> "center"],
     v3TitleContainer |-> [height |-> 56],
     divider |-> [marginTop |-> 4],
     v3Divider |-> [backgroundColor |-> "MD3Colors.neutralVariant50"]]

\* color(c).alpha(a).rgb().string(): the same colour with its alpha
\* channel replaced by a.
colorAlpha(c, a) == [c EXCEPT !.alpha = a]

\* Variant: the alpha channel is scaled by 54% instead of being set to it.
titleColorFaded(theme) ==
    IF theme.isV3
    THEN theme.colors.onSurfaceVariant
    ELSE colorAlpha(theme.colors.text, (theme.colors.text.alpha * 54) \div 100)

titleColor(theme) ==
    IF theme.isV3
    THEN theme.colors.onSurfaceVariant
    ELSE colorAlpha(theme.colors.text, 54)

\* Variant: the margin ignores enableCustomStyle.
titleMarginByTheme(isV3, enableCustomStyle) ==
    IF isV3 THEN 28 ELSE 16

titleMargin(isV3, enableCustomStyle) ==
    IF isV3 /\ ~TruthyBool(enableCustomStyle) THEN 28 ELSE 16

\* Variant: the legacy generation is given the titleSmall style too.
fontTitleSmall(theme) == theme.fonts.titleSmall

font(theme) ==
    IF theme.isV3 THEN theme.fonts.titleSmall ELSE theme.fonts.medium

\* Variant: the height is memoised on the props of the previous render.
titleContainerStyleStale(isV3, enableCustomStyle) ==
    << Some(styles.titleContainer),
       IF isV3 /\ ~TruthyBool(props.enableCustomStyle)
       THEN Some(styles.v3TitleContainer)
       ELSE Some([height |-> 40]) >>

titleContainerStyle(isV3, enableCustomStyle) ==
    << Some(styles.titleContainer),
       IF isV3 /\ ~TruthyBool(enableCustomStyle)
       THEN Some(styles.v3TitleContainer)
       ELSE Some([height |-> 40]) >>

\* Variant: the small variant is chosen by `enableCustomStyle === false`,
\* so an omitted flag takes the larger one.
titleVariantStrict(enableCustomStyle) ==
    IF enableCustomStyle = Some(FALSE) THEN "titleSmall" ELSE "titleMedium"

titleVariant(enableCustomStyle) ==
    IF TruthyBool(enableCustomStyle) THEN "titleMedium" ELSE "titleSmall"

titleTextStyle(theme, enableCustomStyle) ==
    << Some([color |-> titleColor(theme),
             marginLeft |-> titleMargin(theme.isV3, enableCustomStyle)]),
       IF ~TruthyBool(enableCustomStyle)
       THEN Some(Spread(EmptyObject, font(theme)))
       ELSE undefined >>

TitleText(p) ==
    [type |-> "Text",
     props |-> [variant |-> titleVariant(p.enableCustomStyle),
                numberOfLines |-> 1,
                style |-> titleTextStyle(p.theme, p.enableCustomStyle),
                maxFontSizeMultiplier |-> p.titleMaxFontSizeMultiplier],
     children |-> <<ValueOf(p.title)>>]

\* Variant: the outer `title &&` guard is missing.
TitleBlockUnguarded(p) ==
    << [type |-> "View",
        props |-> [style |-> titleContainerStyle(p.theme.isV3,
                                                 p.enableCustomStyle)],
        children |-> IF TruthyString(p.title)
                     THEN <<TitleText(p)>>
                     ELSE <<>>] >>

\* `title && (...)`: an undefined or empty title short-circuits to a value
\* that renders no element.
TitleBlock(p) ==
    IF TruthyString(p.title)
    THEN << [type |-> "View",
             props |-> [style |-> titleContainerStyle(p.theme.isV3,
                                                      p.enableCustomStyle)],
             children |-> IF TruthyString(p.title)
                          THEN <<TitleText(p)>>
                          ELSE <<>>] >>
    ELSE <<>>

\* Variant: the negation of enableCustomStyle is missing.
dividerFlagsNotNegated(isV3, enableCustomStyle) ==
    IF isV3
    THEN [horizontalInset |-> TruthyBool(enableCustomStyle), bold |-> TRUE]
    ELSE EmptyObject

dividerFlags(isV3, enableCustomStyle) ==
    IF isV3
    THEN [horizontalInset |-> ~TruthyBool(enableCustomStyle), bold |-> TRUE]
    ELSE EmptyObject

dividerStyle(isV3) ==
    << Some(styles.divider),
       IF isV3 THEN Some(styles.v3Divider) ELSE undefined >>

\* Variant: showDivider has no default, an omitted flag is falsy.
DividerBlockNoDefault(p) ==
    IF TruthyBool(p.showDivider)
    THEN << [type |-> "Divider",
             props |-> Spread(dividerFlags(p.theme.isV3, p.enableCustomStyle),
                              [style |-> dividerStyle(p.theme.isV3),
                               theme |-> p.theme]),
             children |-> <<>>] >>
    ELSE <<>>

DividerBlock(p) ==
    IF Default(p.showDivider, TRUE)
    THEN << [type |-> "Divider",
             props |-> Spread(dividerFlags(p.theme.isV3, p.enableCustomStyle),
                              [style |-> dividerStyle(p.theme.isV3),
                               theme |-> p.theme]),
             children |-> <<>>] >>
    ELSE <<>>

\* Variant: the divider is emitted before the child content.
DrawerSectionDividerFirst(p) ==
    [type |-> "View",
     props |-> Spread([style |-> <<Some(styles.container), p.style>>], p.rest),
     children |-> TitleBlock(p) \o DividerBlock(p) \o <<p.children>>]

DrawerSection(p) ==
    [type |-> "View",
     props |-> Spread([style |-> <<Some(styles.container), p.style>>], p.rest),
     children |-> TitleBlock(p) \o <<p.children>> \o DividerBlock(p)]

----------------------------------------------------------------------------
(* Adornment enumerations *)

AdornmentType == [Icon |-> "icon", Affix |-> "affix", Loading |-> "loading"]

\* Variant: the two sides carry each other's literal.
AdornmentSideSwapped == [Right |-> "left", Left |-> "right"]

AdornmentSide == [Right |-> "right", Left |-> "left"]

InputMode == [Outlined |-> "outlined", Flat |-> "flat"]

\* The members of an enumeration that a string tag is equal (===) to.
Members(enum, v) == {m \in DOMAIN enum : enum[m] = v}

\* The string tags a consumer may hold: every literal of the three
\* enumerations and one string that belongs to none.
Tags ==
    {AdornmentType[m] : m \in DOMAIN AdornmentType}
    \cup {AdornmentSide[m] : m \in DOMAIN AdornmentSide}
    \cup {InputMode[m] : m \in DOMAIN InputMode}
    \cup {"none"}

NoTag == [type |-> "none", side |-> "none", mode |-> "none"]

----------------------------------------------------------------------------
(* Rendering: the host framework calls the component with new props *)

DefaultProps ==
    [theme |-> Theme(TRUE, 1),
     title |-> undefined,
     children |-> [type |-> "Drawer.Item", props |-> [label |-> 1], children |-> <<>>],
     showDivider |-> undefined,
     titleMaxFontSizeMultiplier |-> undefined,
     style |-> undefined,
     enableCustomStyle |-> undefined,
     rest |-> EmptyObject]

\* The props of the next render: the parent changes one prop.
NextProps(p) ==
    {[p EXCEPT !.theme = v] : v \in Themes}
    \cup {[p EXCEPT !.title = v] : v \in Titles}
    \cup {[p EXCEPT !.children = v] : v \in ChildContent}
    \cup {[p EXCEPT !.showDivider = v] : v \in Optional(BOOLEAN)}
    \cup {[p EXCEPT !.titleMaxFontSizeMultiplier = v] : v \in Optional(1 .. MaxFontScale)}
    \cup {[p EXCEPT !.style = v] : v \in ViewStyles}
    \cup {[p EXCEPT !.enableCustomStyle = v] : v \in Optional(BOOLEAN)}
    \cup {[p EXCEPT !.rest = v] : v \in RestProps}

Init ==
    /\ props = DefaultProps
    /\ tree = DrawerSection(props)
    /\ log = <<>>
    /\ tag = NoTag
    /\ branch = [type |-> {}, side |-> {}, mode |-> {}]

Render(p) ==
    /\ props' = p
    /\ tree' = DrawerSection(p)
    /\ UNCHANGED <<log, tag, branch>>

Next == \E p \in NextProps(props) : Render(p)

Spec == Init /\ [][Next]_vars

----------------------------------------------------------------------------
(* Re-rendering with outputs kept for comparison *)

\* The inputs of the determinism property: every theme, title absent or
\* "X", showDivider and enableCustomStyle true or false.
DetProps ==
    {p \in PropsSpace :
        /\ p.title \in {undefined, Some("X")}
        /\ p.showDivider \in {Some(TRUE), Some(FALSE)}
        /\ p.enableCustomStyle \in {Some(TRUE), Some(FALSE)}
        /\ p.children = DefaultProps.children
        /\ p.titleMaxFontSizeMultiplier = undefined
        /\ p.style = undefined
        /\ p.rest = EmptyObject}

InitDet ==
    /\ props = [DefaultProps EXCEPT !.showDivider = Some(TRUE),
                                    !.enableCustomStyle = Some(FALSE)]
    /\ tree = DrawerSection(props)
    /\ log = <<>>
    /\ tag = NoTag
    /\ branch = [type |-> {}, side |-> {}, mode |-> {}]

\* The output of the current render is kept.
Keep ==
    /\ Len(log) < MaxRenders
    /\ log' = Append(log, [props |-> props, tree |-> tree])
    /\ UNCHANGED <<props, tree, tag, branch>>

RenderDet == \E p \in NextProps(props) \cap DetProps : Render(p)

NextDet == RenderDet \/ Keep

SpecDet == InitDet /\ [][NextDet]_vars

----------------------------------------------------------------------------
(* A consumer selects a rendering branch by comparing tags for equality *)

SelectBranch(t, s, m) ==
    /\ tag' = [type |-> t, side |-> s, mode |-> m]
    /\ branch' = [type |-> Members(AdornmentType, t),
                  side |-> Members(AdornmentSide, s),
                  mode |-> Members(InputMode, m)]
    /\ UNCHANGED <<props, tree, log>>

NextEnum == \E t \in Tags, s \in Tags, m \in Tags : SelectBranch(t, s, m)

SpecEnum == Init /\ [][NextEnum]_vars

----------------------------------------------------------------------------
(* Reading the rendered tree *)

\* The positions of the section container's children of a given type.
ChildrenOfType(t) == {i \in 1 .. Len(tree.children) : tree.children[i].type = t}

TitleContainer == tree.children[CHOOSE i \in ChildrenOfType("View") : TRUE]

TitleLabel == TitleContainer.children[1]

Divider == tree.children[CHOOSE i \in ChildrenOfType("Divider") : TRUE]

TitlePresent == TruthyString(props.title)

CustomStyle == props.enableCustomStyle = Some(TRUE)

FontKeys == {"fontFamily", "fontWeight"}

----------------------------------------------------------------------------
(* Properties *)

\* C1: with title absent the tree has no title container and no title
\* label; with a non-empty title it has exactly one title container, which
\* holds exactly one single-line text label whose content is the title.
C1_TitleBlock ==
    /\ props.title = undefined =>
          /\ ChildrenOfType("View") = {}
          /\ ChildrenOfType("Text") = {}
    /\ TitlePresent =>
          /\ Cardinality(ChildrenOfType("View")) = 1
          /\ ChildrenOfType("Text") = {}
          /\ Len(TitleContainer.children) = 1
          /\ TitleLabel.type = "Text"
          /\ TitleLabel.props.numberOfLines = 1
          /\ TitleLabel.children = <<ValueOf(props.title)>>

C1_Witness ==
    /\ props.title = Some("Settings")
    /\ Cardinality(ChildrenOfType("View")) = 1
    /\ TitleLabel.children = <<"Settings">>

\* C2: showDivider=false gives no divider node; showDivider=true or omitted
\* gives exactly one.
C2_DividerPresence ==
    /\ props.showDivider = Some(FALSE) => ChildrenOfType("Divider") = {}
    /\ props.showDivider \in {Some(TRUE), undefined} =>
          Cardinality(ChildrenOfType("Divider")) = 1

C2_Witness ==
    /\ props.showDivider = undefined
    /\ TitlePresent
    /\ Cardinality(ChildrenOfType("Divider")) = 1

\* C3: with a title, the label's left margin is 28 and the container's
\* height 56 exactly when the theme is current-generation and
\* enableCustomStyle is not enabled; otherwise they are 16 and 40.
C3_MarginAndHeight ==
    TitlePresent =>
        LET margin == Flatten(TitleLabel.props.style).marginLeft
            height == Flatten(TitleContainer.props.style).height
        IN  /\ (props.theme.isV3 /\ ~CustomStyle) => (margin = 28 /\ height = 56)
            /\ ~(props.theme.isV3 /\ ~CustomStyle) => (margin = 16 /\ height = 40)
            /\ (margin = 28) <=> (height = 56)
            /\ (margin = 16) <=> (height = 40)

C3_Witness ==
    /\ TitlePresent
    /\ props.theme.isV3
    /\ CustomStyle
    /\ Flatten(TitleLabel.props.style).marginLeft = 16
    /\ Flatten(TitleContainer.props.style).height = 40

\* C4: the title colour is the theme's base text colour with its opacity
\* set to 54% on a legacy theme and the theme's onSurfaceVariant colour
\* unchanged on a current-generation theme, whatever the other props are.
C4_TitleColor ==
    TitlePresent =>
        Flatten(TitleLabel.props.style).color =
            IF props.theme.isV3
            THEN props.theme.colors.onSurfaceVariant
            ELSE [rgb |-> props.theme.colors.text.rgb, alpha |-> 54]

C4_Witness ==
    /\ TitlePresent
    /\ ~props.theme.isV3
    /\ props.theme.colors.text.alpha = 87
    /\ Flatten(TitleLabel.props.style).color.alpha = 54

\* C5: without enableCustomStyle the label carries a font override equal to
\* the theme's titleSmall style (current generation) or medium style
\* (legacy) and the titleSmall variant; with enableCustomStyle it carries no
\* font override and the titleMedium variant.
C5_FontOverride ==
    TitlePresent =>
        LET style == Flatten(TitleLabel.props.style)
            themeFont == IF props.theme.isV3
                         THEN props.theme.fonts.titleSmall
                         ELSE props.theme.fonts.medium
        IN  /\ ~CustomStyle =>
                  /\ FontKeys \subseteq DOMAIN style
                  /\ \A k \in FontKeys : style[k] = themeFont[k]
                  /\ TitleLabel.props.style[2] = Some(themeFont)
                  /\ TitleLabel.props.variant = "titleSmall"
            /\ CustomStyle =>
                  /\ DOMAIN style \cap FontKeys = {}
                  /\ TitleLabel.props.style[2] = undefined
                  /\ TitleLabel.props.variant = "titleMedium"

C5_Witness ==
    /\ TitlePresent
    /\ ~props.theme.isV3
    /\ ~CustomStyle
    /\ TitleLabel.props.style[2] = Some(props.theme.fonts.medium)
    /\ props.theme.fonts.medium # props.theme.fonts.titleSmall

\* C6: an emitted divider has, on a current-generation theme, bold=true,
\* an inset flag equal to the negation of enableCustomStyle and the
\* current-generation background tint; on a legacy theme it has no inset
\* flag, no bold flag and no tint. Nothing of it depends on the title.
C6_DividerProps ==
    ChildrenOfType("Divider") # {} =>
        LET flags == DOMAIN Divider.props
            style == Flatten(Divider.props.style)
        IN  /\ props.theme.isV3 =>
                  /\ {"bold", "horizontalInset"} \subseteq flags
                  /\ Divider.props.bold = TRUE
                  /\ Divider.props.horizontalInset = ~CustomStyle
                  /\ "backgroundColor" \in DOMAIN style
                  /\ style.backgroundColor = styles.v3Divider.backgroundColor
            /\ ~props.theme.isV3 =>
                  /\ flags \cap {"bold", "horizontalInset"} = {}
                  /\ "backgroundColor" \notin DOMAIN style

C6_Witness ==
    /\ ChildrenOfType("Divider") # {}
    /\ props.theme.isV3
    /\ CustomStyle
    /\ ~TitlePresent
    /\ Divider.props.horizontalInset = FALSE
    /\ Divider.props.bold = TRUE

\* C7: the section container's children are, in this order, the title
\* block (if any), the child content, the divider (if any); the child
\* content is there exactly once and unchanged.
C7_ChildOrder ==
    LET n == Len(tree.children)
        content == {i \in 1 .. n : tree.children[i] = props.children}
    IN  /\ Cardinality(content) = 1
        /\ \A i \in 1 .. n :
              /\ i \in ChildrenOfType("View") => \A j \in content : i < j
              /\ i \in ChildrenOfType("Divider") => \A j \in content : j < i
        /\ n = 1 + Cardinality(ChildrenOfType("View"))
                 + Cardinality(ChildrenOfType("Divider"))

C7_Witness ==
    /\ Len(tree.children) = 3
    /\ tree.children[1].type = "View"
    /\ tree.children[2] = props.children
    /\ tree.children[3].type = "Divider"

C9_Enumerations ==
    /\ AdornmentType = [Icon |-> "icon", Affix |-> "affix", Loading |-> "loading"]
    /\ AdornmentSide = [Right |-> "right", Left |-> "left"]
    /\ InputMode = [Outlined |-> "outlined", Flat |-> "flat"]
    /\ \A k \in {"type", "side", "mode"} : Cardinality(branch[k]) <= 1
    /\ \A m \in branch.type : AdornmentType[m] = tag.type
    /\ \A m \in branch.side : AdornmentSide[m] = tag.side
    /\ \A m \in branch.mode : InputMode[m] = tag.mode
    /\ tag.type \in {"icon", "affix", "loading"} <=> branch.type # {}
    /\ tag.side \in {"right", "left"} <=> branch.side # {}
    /\ tag.mode \in {"outlined", "flat"} <=> branch.mode # {}

C9_Witness ==
    /\ tag = [type |-> "icon", side |-> "left", mode |-> "outlined"]
    /\ branch = [type |-> {"Icon"}, side |-> {"Left"}, mode |-> {"Outlined"}]

\* C10: a render with enableCustomStyle omitted yields the tree that the
\* same props with enableCustomStyle=false yield.
C10_OmittedIsFalse ==
    props.enableCustomStyle = undefined =>
        tree = DrawerSection([props EXCEPT !.enableCustomStyle = Some(FALSE)])

C10_Witness ==
    /\ props.enableCustomStyle = undefined
    /\ TitlePresent
    /\ props.theme.isV3
    /\ ChildrenOfType("Divider") # {}
    /\ Divider.props.horizontalInset = TRUE
    /\ TitleLabel.props.variant = "titleSmall"

====
